---- MODULE Spec2Model ----
(***************************************************************************)
(* Model of the T-Dongle-S3 stock market display (src/src/main.cpp):       *)
(* the helpers comma_separator and extractValue, fetchQuote / getQuotes,   *)
(* drawQuote / drawPercentChange and the loop() that drives them.          *)
(*                                                                         *)
(* Text is a sequence of one-character strings, indexed from 0 as in the   *)
(* code (position i of the code is element i + 1 of the sequence).         *)
(* A double is an exact rational <<n, d>> with d > 0 in lowest terms.      *)
(***************************************************************************)
EXTENDS Integers, Sequences, FiniteSets, TLC

VARIABLES
  quotes,   \* the globals spx, ndx, bnd, as rows 0, 1, 2
  pc,       \* the call loop() or getQuotes makes next
  success,  \* getQuotes' locals spxSuccess, ndxSuccess, bndSuccess
  answer,   \* what the network answered the last fetchQuote of this getQuotes
  serial,   \* the last report of getQuotes on the serial port
  display,  \* the three rows of the right-hand area of the TFT
  trace,    \* the calls made so far in the current iteration of loop()
  call      \* a call of a helper on its own (ExtractSpec, FormatSpec, DrawSpec)

vars == <<quotes, pc, success, answer, serial, display, trace, call>>

----------------------------------------------------------------------------
(* Exact rational arithmetic standing for the code's double arithmetic.    *)

Abs(x) == IF x < 0 THEN -x ELSE x

RECURSIVE Gcd(_, _)
Gcd(a, b) == IF b = 0 THEN a ELSE Gcd(b, a % b)

RNorm(n, d) ==
  LET g == Gcd(Abs(n), Abs(d))
      s == IF d < 0 THEN -1 ELSE 1
  IN  <<(s * n) \div g, (s * d) \div g>>

RZero == <<0, 1>>
RInt(n) == <<n, 1>>
RSub(a, b) == RNorm(a[1] * b[2] - b[1] * a[2], a[2] * b[2])
RMul(a, b) == RNorm(a[1] * b[1], a[2] * b[2])
RDiv(a, b) == RNorm(a[1] * b[2], a[2] * b[1])
RLess(a, b) == a[1] * b[2] < b[1] * a[2]
REq(a, b) == a[1] * b[2] = b[1] * a[2]
RAbs(a) == <<Abs(a[1]), a[2]>>

RECURSIVE Pow10(_)
Pow10(e) == IF e = 0 THEN 1 ELSE 10 * Pow10(e - 1)

----------------------------------------------------------------------------
(* Text helpers: the Arduino String operations the code calls.             *)

Digits == <<"0", "1", "2", "3", "4", "5", "6", "7", "8", "9">>
IsDigit(c) == \E k \in 1..10 : Digits[k] = c
DigitVal(c) == (CHOOSE k \in 1..10 : Digits[k] = c) - 1
IsSpace(c) == c \in {" ", "\t", "\n", "\r"}

\* strlen / String::length
StrLen(s) == Len(s)

\* s holds pat at 0-based position i
MatchAt(s, pat, i) ==
  /\ i >= 0
  /\ i + Len(pat) <= Len(s)
  /\ \A k \in 1..Len(pat) : s[i + k] = pat[k]

\* String::indexOf(pat, from): first 0-based position >= from, or -1
IndexOfFrom(s, pat, from) ==
  IF from >= Len(s) THEN -1
  ELSE LET hits == {i \in from..(Len(s) - Len(pat)) : MatchAt(s, pat, i)}
       IN  IF hits = {} THEN -1
           ELSE CHOOSE i \in hits : \A h \in hits : i <= h

IndexOf(s, pat) == IndexOfFrom(s, pat, 0)

\* String::substring(left, right): the characters at [left, right), with the
\* library's clamping (swapped when left > right, right cut at the length)
Substring(s, left, right) ==
  LET l == IF left > right THEN right ELSE left
      r0 == IF left > right THEN left ELSE right
      r == IF r0 > Len(s) THEN Len(s) ELSE r0
  IN  IF l >= Len(s) THEN <<>> ELSE SubSeq(s, l + 1, r)

SubstringFrom(s, left) == Substring(s, left, Len(s))

StartsWith(s, pat) == MatchAt(s, pat, 0)

\* String::trim(): drops white space at both ends
Trim(s) ==
  LET keep == {i \in 1..Len(s) : ~IsSpace(s[i])}
  IN  IF keep = {} THEN <<>>
      ELSE SubSeq(s, CHOOSE i \in keep : \A h \in keep : i <= h,
                     CHOOSE i \in keep : \A h \in keep : i >= h)

\* number of digits of s from 1-based position i on
RECURSIVE DigitRun(_, _)
DigitRun(s, i) ==
  IF i <= Len(s) /\ IsDigit(s[i]) THEN 1 + DigitRun(s, i + 1) ELSE 0

\* value of the n digits of s from 1-based position i on
RECURSIVE DigitsValue(_, _, _)
DigitsValue(s, i, n) ==
  IF n = 0 THEN 0
  ELSE 10 * DigitsValue(s, i, n - 1) + DigitVal(s[i + n - 1])

\* String::toDouble() (atof): white space, an optional sign, digits, an
\* optional point and digits; the longest such prefix, 0.0 when there is none.
\* (Exponents are not modelled; no text used below holds one after a number.)
ToDouble(s) ==
  LET sp == {i \in 1..Len(s) : ~IsSpace(s[i])}
      b == IF sp = {} THEN Len(s) + 1
           ELSE CHOOSE i \in sp : \A h \in sp : i <= h
      signed == b <= Len(s) /\ s[b] \in {"-", "+"}
      neg == signed /\ s[b] = "-"
      i0 == IF signed THEN b + 1 ELSE b
      ni == DigitRun(s, i0)
      point == i0 + ni <= Len(s) /\ s[i0 + ni] = "."
      nf == IF point THEN DigitRun(s, i0 + ni + 1) ELSE 0
      mant == DigitsValue(s, i0, ni) * Pow10(nf)
              + (IF nf > 0 THEN DigitsValue(s, i0 + ni + 1, nf) ELSE 0)
  IN  IF ni + nf = 0 THEN RZero
      ELSE RNorm(IF neg THEN -mant ELSE mant, Pow10(nf))

\* decimal digits of the natural number n
RECURSIVE NatText(_)
NatText(n) ==
  IF n < 10 THEN <<Digits[n + 1]>>
  ELSE NatText(n \div 10) \o <<Digits[(n % 10) + 1]>>

\* the natural number n as exactly w digits (n < 10^w)
RECURSIVE PadText(_, _)
PadText(n, w) ==
  IF w = 0 THEN <<>> ELSE PadText(n \div 10, w - 1) \o <<Digits[(n % 10) + 1]>>

\* sprintf "%0.<decimals>f" (plus = TRUE: "%+.<decimals>f"): the value rounded
\* to that many decimals, ties to even as printf rounds a value that is exact
\* in binary; no point when decimals = 0; "-" also for a negative that rounds
\* to zero.
SprintfF(num, decimals, plus) ==
  LET a == Abs(num[1])
      d == num[2]
      ip == a \div d
      sc == (a % d) * Pow10(decimals)
      q == sc \div d
      r == sc % d
      odd == (IF decimals = 0 THEN ip ELSE q) % 2 = 1
      up == 2 * r > d \/ (2 * r = d /\ odd)
      q1 == IF up THEN q + 1 ELSE q
      carry == q1 = Pow10(decimals)
      ip2 == IF carry THEN ip + 1 ELSE ip
      q2 == IF carry THEN 0 ELSE q1
      sign == IF num[1] < 0 THEN <<"-">> ELSE IF plus THEN <<"+">> ELSE <<>>
  IN  sign \o NatText(ip2)
           \o (IF decimals > 0 THEN <<".">> \o PadText(q2, decimals) ELSE <<>>)

----------------------------------------------------------------------------
(* Program constants.                                                      *)

BUF_SIZE == 80
HTTP_CODE_OK == 200

TFT_DARKGREY == "TFT_DARKGREY"
TFT_GREEN == "TFT_GREEN"
TFT_WHITE == "TFT_WHITE"
TFT_RED == "TFT_RED"

\* the symbols getQuotes asks for, in rows 0 (spx), 1 (ndx), 2 (bnd)
Symbols == <<"^SPX", "^NDX", "^TNX">>
Rows == {0, 1, 2}

KeyMeta == <<"\"","m","e","t","a","\"",":","{">>
KeyPrice == <<"\"","r","e","g","u","l","a","r","M","a","r","k","e","t","P","r","i","c","e","\"",":">>
KeyPrevClose == <<"\"","c","h","a","r","t","P","r","e","v","i","o","u","s","C","l","o","s","e","\"",":">>

----------------------------------------------------------------------------
(* comma_separator                                                         *)

\* the for loop that looks for the decimal point: its 0-based position in
\* temp, -1 when there is none
FindDecimalPos(temp) ==
  LET dots == {i \in 0..(Len(temp) - 1) : temp[i + 1] = "."}
  IN  IF dots = {} THEN -1 ELSE CHOOSE i \in dots : \A h \in dots : i <= h

\* the while loop over the whole-number part, from position i with boundary k
\* and the output written so far
RECURSIVE GroupLoop(_, _, _, _, _, _)
GroupLoop(temp, i, k, limit, sep, str) ==
  IF i < limit
  THEN IF i = k
       THEN GroupLoop(temp, i + 1, k + 3, limit, sep, str \o <<sep, temp[i + 1]>>)
       ELSE GroupLoop(temp, i + 1, k, limit, sep, str \o <<temp[i + 1]>>)
  ELSE str

\* the while loop that copies the decimals
RECURSIVE DecimalLoop(_, _, _, _, _)
DecimalLoop(temp, i, decimalPos, decimals, str) ==
  IF i < Len(temp) /\ (i - decimalPos) <= decimals
  THEN DecimalLoop(temp, i + 1, decimalPos, decimals, str \o <<temp[i + 1]>>)
  ELSE str

\* variant: the boundary without "if (k == 0) k = 3"
FirstBoundaryNoFix(limit) == limit % 3

\* first group boundary: (length of the whole-number part) % 3, 3 when that is 0
FirstBoundary(limit) == IF limit % 3 = 0 THEN 3 ELSE limit % 3

\* the text comma_separator leaves in str (temp and str hold at most
\* BUF_SIZE - 1 characters; longer renderings are outside this model)
comma_separator(num, sep, decimals) ==
  LET temp == SprintfF(num, decimals, FALSE)
      len == Len(temp)
      decimalPos == FindDecimalPos(temp)
      limit == IF decimalPos # -1 THEN decimalPos ELSE len
      whole == GroupLoop(temp, 0, FirstBoundary(limit), limit, sep, <<>>)
  IN  IF decimalPos # -1
      THEN DecimalLoop(temp, decimalPos + 1, decimalPos, decimals, whole \o <<".">>)
      ELSE whole

----------------------------------------------------------------------------
(* extractValue                                                            *)

\* variant: the result of indexOf is not tested, any start is accepted
KeyAcceptedAlways(start, field) == start >= 0

\* is the key accepted: start > strlen(field)
KeyAccepted(start, field) == start > StrLen(field)

\* is the value bounded: end > start
ValueBounded(start, end) == end > start

\* one call of extractValue: the positions it computes, whether it took the
\* substring, and what it returns
ExtractRun(payload, field) ==
  LET start == IndexOf(payload, field) + StrLen(field)
      end == IF KeyAccepted(start, field)
             THEN IndexOfFrom(payload, <<",">>, start) ELSE -1
      took == KeyAccepted(start, field) /\ ValueBounded(start, end)
      value == Trim(Substring(payload, start, end))
      value2 == IF StartsWith(value, <<":">>) THEN SubstringFrom(value, 1) ELSE value
  IN  [start |-> start, end |-> end, took |-> took,
       ret |-> IF took THEN ToDouble(value2) ELSE RZero]

extractValue(payload, field) == ExtractRun(payload, field).ret

----------------------------------------------------------------------------
(* quote, fetchQuote                                                       *)

\* quote spx, ndx, bnd: globals, zero-initialised
ZeroQuote ==
  [current |-> RZero, previousClose |-> RZero, percentageChange |-> RZero,
   marketOpen |-> FALSE]

\* variant: no else branch, the old percentage stays when previousClose is 0
PercentChangeStale(data) ==
  IF ~REq(data.previousClose, RZero)
  THEN RMul(RDiv(RSub(data.current, data.previousClose), data.previousClose),
            RInt(100))
  ELSE data.percentageChange

\* the percentage change written after current and previousClose of data
PercentChangeOf(data) ==
  IF ~REq(data.previousClose, RZero)
  THEN RMul(RDiv(RSub(data.current, data.previousClose), data.previousClose),
            RInt(100))
  ELSE RZero

\* the assignments made once both fields were parsed
Populate(data, cur, prev) ==
  [ret |-> TRUE,
   data |-> [current |-> cur, previousClose |-> prev,
             percentageChange |->
               PercentChangeOf([data EXCEPT !.current = cur, !.previousClose = prev]),
             marketOpen |-> TRUE]]

\* variant: a failing return that marks the quote as open
FailedFetchOpen(data) == [ret |-> FALSE, data |-> [data EXCEPT !.marketOpen = TRUE]]

\* variant: a failing return that clears the quote
FailedFetchZeroed(data) == [ret |-> FALSE, data |-> ZeroQuote]

\* what a failing return leaves in data
FailedFetch(data) == [ret |-> FALSE, data |-> data]

\* the search for the meta section and the two extractValue calls, on one
\* payload: found says whether "meta":{ and a closing brace after it were found
ScanPayload(payload) ==
  LET metaStart == IndexOf(payload, KeyMeta)
      metaEnd == IndexOfFrom(payload, <<"}">>, metaStart)
      metaSection == Substring(payload, metaStart, metaEnd + 1)
  IN  IF metaStart # -1 /\ metaEnd # -1
      THEN [found |-> TRUE,
            current |-> extractValue(metaSection, KeyPrice),
            previousClose |-> extractValue(metaSection, KeyPrevClose)]
      ELSE [found |-> FALSE, current |-> RZero, previousClose |-> RZero]

----------------------------------------------------------------------------
(* drawQuote, drawPercentChange                                            *)

\* variant: the price comparison comes before the market state
DrawQuoteColorPriceFirst(symbol) ==
  IF RLess(symbol.previousClose, symbol.current) THEN TFT_GREEN
  ELSE IF ~symbol.marketOpen THEN TFT_DARKGREY
  ELSE IF REq(symbol.current, symbol.previousClose) THEN TFT_WHITE
  ELSE TFT_RED

\* the colour drawQuote sets
DrawQuoteColor(symbol) ==
  IF ~symbol.marketOpen THEN TFT_DARKGREY
  ELSE IF RLess(symbol.previousClose, symbol.current) THEN TFT_GREEN
  ELSE IF REq(symbol.current, symbol.previousClose) THEN TFT_WHITE
  ELSE TFT_RED

\* variant: exact comparison with 0.0 instead of the tolerance
DrawPercentColorExact(symbol) ==
  IF ~symbol.marketOpen THEN TFT_DARKGREY
  ELSE IF RLess(RZero, symbol.percentageChange) THEN TFT_GREEN
  ELSE IF REq(symbol.percentageChange, RZero) THEN TFT_WHITE
  ELSE TFT_RED

\* the colour drawPercentChange sets
DrawPercentColor(symbol) ==
  IF ~symbol.marketOpen THEN TFT_DARKGREY
  ELSE IF RLess(RZero, symbol.percentageChange) THEN TFT_GREEN
  ELSE IF RLess(RAbs(symbol.percentageChange), <<1, 1000>>) THEN TFT_WHITE
  ELSE TFT_RED

\* a row of the right-hand area of the screen: what was drawn there last, in
\* which colour, and the quote it was drawn from
BlankRow ==
  [kind |-> "blank", color |-> "none", text |-> <<>>, from |-> ZeroQuote]

\* the row drawQuote draws: 4 decimals for row 2 (T10), 0 for the others
drawQuote(symbol, pos, sep) ==
  [kind |-> "value", color |-> DrawQuoteColor(symbol),
   text |-> comma_separator(symbol.current, sep, IF pos = 2 THEN 4 ELSE 0),
   from |-> symbol]

\* the row drawPercentChange draws: "%+.1f%%"
drawPercentChange(symbol, pos) ==
  [kind |-> "percent", color |-> DrawPercentColor(symbol),
   text |-> SprintfF(symbol.percentageChange, 1, TRUE) \o <<"%">>,
   from |-> symbol]

\* the separator loop() passes for each row
RowSep(pos) == IF pos = 2 THEN "." ELSE ","

----------------------------------------------------------------------------
(* The network: what http.begin, http.GET and http.getString can answer.   *)

PayloadHead == <<"{","\"","c","h","a","r","t","\"",":","{","\"","r","e","s","u","l","t","\"",":","[","{">>
PayloadCurrency == <<"\"","c","u","r","r","e","n","c","y","\"",":","\"","U","S","D","\"",",">>
PayloadMore == <<",","\"","x","\"",":","1","}">>
PayloadTail == <<"]","}","}">>
PayloadNoMeta == <<"{","\"","c","h","a","r","t","\"",":","{","\"","r","e","s","u","l","t","\"",":","n","u","l","l","}","}">>

\* a complete answer with both fields, each followed by a comma
PayloadBoth(price, prev) ==
  PayloadHead \o KeyMeta \o PayloadCurrency \o KeyPrice \o price \o <<",">>
              \o KeyPrevClose \o prev \o PayloadMore \o PayloadTail

\* the meta section holds no "regularMarketPrice"
PayloadNoPrice(prev) ==
  PayloadHead \o KeyMeta \o PayloadCurrency \o KeyPrevClose \o prev
              \o PayloadMore \o PayloadTail

\* "chartPreviousClose" is the last field before the closing brace
PayloadPrevLast(price, prev) ==
  PayloadHead \o KeyMeta \o PayloadCurrency \o KeyPrice \o price \o <<",">>
              \o KeyPrevClose \o prev \o <<"}">> \o PayloadTail

\* an answer cut off inside the meta section: no closing brace
PayloadCut(price) ==
  PayloadHead \o KeyMeta \o PayloadCurrency \o KeyPrice \o price \o <<",">>

Payloads ==
  { PayloadBoth(<<"5">>, <<"4">>),
    PayloadBoth(<<"4">>, <<"4">>),
    PayloadBoth(<<"9","9","9","9","9","9">>, <<"1","0","0","0","0","0","0">>),
    PayloadNoPrice(<<"4">>),
    PayloadPrevLast(<<"5">>, <<"4">>),
    PayloadNoMeta,
    PayloadCut(<<"5">>) }

Network ==
  {[begin |-> FALSE, code |-> 0, payload |-> <<>>]}
    \cup {[begin |-> TRUE, code |-> c, payload |-> <<>>] : c \in {-1, 404}}
    \cup {[begin |-> TRUE, code |-> HTTP_CODE_OK, payload |-> p] : p \in Payloads}

\* ScanPayload tabulated over the payloads the network can answer with
Scanned == [p \in Payloads |-> ScanPayload(p)]

\* fetchQuote on the quote data, the network answering with net:
\* net.begin is what http.begin returns, net.code what http.GET returns,
\* net.payload what http.getString returns
fetchQuote(data, net) ==
  IF ~net.begin THEN FailedFetch(data)
  ELSE IF net.code = HTTP_CODE_OK
       THEN IF Scanned[net.payload].found
            THEN Populate(data, Scanned[net.payload].current,
                                Scanned[net.payload].previousClose)
            ELSE FailedFetch(data)
       ELSE FailedFetch(data)

----------------------------------------------------------------------------
(* getQuotes and loop(): one step per call made by loop() and getQuotes.   *)

NoCall == [fn |-> "none"]

\* no request made yet in this call of getQuotes
NoAnswer == [begin |-> FALSE, code |-> 0, payload |-> <<>>]

\* an entry of the trace of calls made in the current iteration of loop();
\* sym is the symbol asked for (fetchQuote), ok what the call returned
Event(ev, row, sym, ok) == [ev |-> ev, row |-> row, sym |-> sym, ok |-> ok]

\* variant: getQuotes gives up at the first failed fetch
AfterFetchAbort(i, ret) ==
  IF ret /\ i < 2 THEN <<"fetchQuote", i + 1>> ELSE <<"report", 0>>

\* where getQuotes goes after the fetch of row i returned ret
AfterFetch(i, ret) == IF i < 2 THEN <<"fetchQuote", i + 1>> ELSE <<"report", 0>>

\* where loop() goes after fillRect number n
AfterFillRect(n) == IF n = 0 THEN <<"drawQuote", 0>> ELSE <<"drawPercentChange", 0>>

\* variant: no delay(DELAY) between the values and the percentages
AfterDrawQuoteNoPause(i) ==
  IF i < 2 THEN <<"drawQuote", i + 1>> ELSE <<"fillRect", 1>>

\* where loop() goes after drawQuote of row i
AfterDrawQuote(i) == IF i < 2 THEN <<"drawQuote", i + 1>> ELSE <<"delay", 0>>

\* where loop() goes after delay number n: the second one ends the iteration
AfterDelay(n) == IF n = 0 THEN <<"fillRect", 1>> ELSE <<"fetchQuote", 0>>

\* where loop() goes after drawPercentChange of row i
AfterDrawPercent(i) == IF i < 2 THEN <<"drawPercentChange", i + 1>> ELSE <<"delay", 1>>

Init ==
  /\ quotes = [i \in Rows |-> ZeroQuote]
  /\ pc = <<"fetchQuote", 0>>
  /\ success = [i \in Rows |-> FALSE]
  /\ answer = NoAnswer
  /\ serial = "none"
  /\ display = [i \in Rows |-> BlankRow]
  /\ trace = <<>>
  /\ call = NoCall

\* getQuotes: fetchQuote(http, client, Symbols[i + 1], quote i); http.end();
\* delay(1000).  answer keeps what the network answered this call until
\* getQuotes returns.  The first fetch of an iteration starts a new trace.
FetchStep(i) ==
  /\ pc = <<"fetchQuote", i>>
  /\ \E net \in Network :
       \E r \in {fetchQuote(quotes[i], net)} :
           /\ quotes' = [quotes EXCEPT ![i] = r.data]
           /\ success' = [success EXCEPT ![i] = r.ret]
           /\ answer' = net
           /\ trace' = (IF i = 0 THEN <<>> ELSE trace)
                         \o <<Event("fetchQuote", i, Symbols[i + 1], r.ret)>>
           /\ pc' = AfterFetch(i, r.ret)
  /\ UNCHANGED <<serial, display, call>>

\* getQuotes: the table or the failure line on the serial port; the three
\* success flags are locals and end with the call
Report ==
  /\ pc = <<"report", 0>>
  /\ serial' = IF \A i \in Rows : success[i] THEN "table" ELSE "failed"
  /\ success' = [i \in Rows |-> FALSE]
  /\ answer' = NoAnswer
  /\ pc' = <<"fillRect", 0>>
  /\ UNCHANGED <<quotes, display, trace, call>>

\* loop: tft.fillRect(...) before the values (n = 0), before the percentages (n = 1)
FillRect(n) ==
  /\ pc = <<"fillRect", n>>
  /\ display' = [i \in Rows |-> BlankRow]
  /\ trace' = trace \o <<Event("fillRect", n, "", TRUE)>>
  /\ pc' = AfterFillRect(n)
  /\ UNCHANGED <<quotes, success, answer, serial, call>>

\* loop: drawQuote(spx, 0, ','); drawQuote(ndx, 1, ','); drawQuote(bnd, 2, '.')
DrawQuoteStep(i) ==
  /\ pc = <<"drawQuote", i>>
  /\ display' = [display EXCEPT ![i] = drawQuote(quotes[i], i, RowSep(i))]
  /\ trace' = trace \o <<Event("drawQuote", i, "", TRUE)>>
  /\ pc' = AfterDrawQuote(i)
  /\ UNCHANGED <<quotes, success, answer, serial, call>>

\* loop: delay(DELAY) after the values (n = 0), after the percentages (n = 1)
DelayStep(n) ==
  /\ pc = <<"delay", n>>
  /\ trace' = trace \o <<Event("delay", n, "", TRUE)>>
  /\ pc' = AfterDelay(n)
  /\ UNCHANGED <<quotes, success, answer, serial, display, call>>

\* loop: drawPercentChange(spx, 0); drawPercentChange(ndx, 1); drawPercentChange(bnd, 2)
DrawPercentStep(i) ==
  /\ pc = <<"drawPercentChange", i>>
  /\ display' = [display EXCEPT ![i] = drawPercentChange(quotes[i], i)]
  /\ trace' = trace \o <<Event("drawPercentChange", i, "", TRUE)>>
  /\ pc' = AfterDrawPercent(i)
  /\ UNCHANGED <<quotes, success, answer, serial, call>>

Next ==
  \/ \E i \in Rows : FetchStep(i)
  \/ Report
  \/ \E n \in {0, 1} : FillRect(n)
  \/ \E i \in Rows : DrawQuoteStep(i)
  \/ \E n \in {0, 1} : DelayStep(n)
  \/ \E i \in Rows : DrawPercentStep(i)

Spec == Init /\ [][Next]_vars

----------------------------------------------------------------------------
(* extractValue on its own: calls on text buffers drawn from a bounded set. *)

\* largest number of characters put in front of the key
MaxOffset == 3

FillChars == <<"{", ",", " ", "x">>
Filler(n) == [k \in 1..n |-> FillChars[((k - 1) % Len(FillChars)) + 1]]

ValueTexts ==
  { <<"1","2","3",".","4","5">>, <<"5">>, <<" ","7"," ">>, <<":","8">>,
    <<"-","2",".","5">>, <<>> }

BufferTails ==
  { <<",">>, <<",","\"","x","\"",":","1">>, <<"}">>, <<>> }

Fields == {KeyPrice, KeyPrevClose}

ExtractInputs ==
  { [payload |-> Filler(n) \o key \o v \o t, field |-> f] :
      n \in 0..MaxOffset, key \in Fields, v \in ValueTexts, t \in BufferTails,
      f \in Fields }

NoRun == [start |-> 0, end |-> 0, took |-> FALSE, ret |-> RZero]

MainIdle ==
  /\ quotes = [i \in Rows |-> ZeroQuote]
  /\ pc = <<"idle", 0>>
  /\ success = [i \in Rows |-> FALSE]
  /\ answer = NoAnswer
  /\ serial = "none"
  /\ display = [i \in Rows |-> BlankRow]
  /\ trace = <<>>

ExtractInit ==
  /\ MainIdle
  /\ \E in \in ExtractInputs :
       call = [fn |-> "extractValue", payload |-> in.payload, field |-> in.field,
               done |-> FALSE, run |-> NoRun]

ExtractCall ==
  /\ call.fn = "extractValue"
  /\ ~call.done
  /\ call' = [call EXCEPT !.done = TRUE,
                          !.run = ExtractRun(call.payload, call.field)]
  /\ UNCHANGED <<quotes, pc, success, answer, serial, display, trace>>

ExtractNext == ExtractCall

ExtractSpec == ExtractInit /\ [][ExtractNext]_vars

----------------------------------------------------------------------------
(* comma_separator on its own: calls on numbers drawn from a bounded set.  *)

\* largest number of decimals asked for
MaxDecimals == 4
\* largest number of digits of the whole-number part of an input
MaxIntDigits == 7

\* 1, 12, 123, ...
RECURSIVE Lead(_)
Lead(n) == IF n = 0 THEN 0 ELSE 10 * Lead(n - 1) + (n % 10)

WholeParts ==
  {0} \cup {Lead(n) : n \in 1..MaxIntDigits}
      \cup {Pow10(n) - 1 : n \in 1..MaxIntDigits}

\* fractions: none, one half (a tie that is exact in binary), .3456
Fractions == {<<0, 1>>, <<1, 2>>, <<3456, 10000>>}

\* whole part w and fraction f whose arithmetic stays within the model's
\* integers
Fits(w, f) == f[2] < 10000 \/ w < 100000

FormatNumbers ==
  { RNorm(p[1] * (p[2] * p[3][2] + p[3][1]), p[3][2]) :
      p \in {t \in {1, -1} \X WholeParts \X Fractions : Fits(t[2], t[3])} }

FormatInputs ==
  { [num |-> v, sep |-> c, decimals |-> d] :
      v \in FormatNumbers, c \in {",", "."}, d \in 0..MaxDecimals }

FormatInit ==
  /\ MainIdle
  /\ \E in \in FormatInputs :
       call = [fn |-> "comma_separator", num |-> in.num, sep |-> in.sep,
               decimals |-> in.decimals, done |-> FALSE, str |-> <<>>]

FormatCall ==
  /\ call.fn = "comma_separator"
  /\ ~call.done
  /\ call' = [call EXCEPT !.done = TRUE,
                          !.str = comma_separator(call.num, call.sep, call.decimals)]
  /\ UNCHANGED <<quotes, pc, success, answer, serial, display, trace>>

FormatNext == FormatCall

FormatSpec == FormatInit /\ [][FormatNext]_vars

----------------------------------------------------------------------------
(* drawQuote and drawPercentChange on their own: calls on quotes drawn     *)
(* from a bounded set.                                                     *)

DrawPrices == {RInt(0), RInt(4), RInt(5)}

DrawChanges ==
  {RInt(-100), <<-1, 1000>>, <<-1, 10000>>, RZero, <<1, 10000>>, RInt(25)}

DrawInputs ==
  { [symbol |-> [current |-> c, previousClose |-> p, percentageChange |-> g,
                 marketOpen |-> m],
     pos |-> i] :
      c \in DrawPrices, p \in DrawPrices, g \in DrawChanges, m \in BOOLEAN,
      i \in Rows }

DrawInit ==
  /\ MainIdle
  /\ \E in \in DrawInputs :
       call = [fn |-> "draw", symbol |-> in.symbol, pos |-> in.pos,
               done |-> "no", row |-> BlankRow]

DrawQuoteCall ==
  /\ call.fn = "draw"
  /\ call.done = "no"
  /\ call' = [call EXCEPT !.done = "drawQuote",
                          !.row = drawQuote(call.symbol, call.pos, RowSep(call.pos))]
  /\ UNCHANGED <<quotes, pc, success, answer, serial, display, trace>>

DrawPercentCall ==
  /\ call.fn = "draw"
  /\ call.done = "no"
  /\ call' = [call EXCEPT !.done = "drawPercentChange",
                          !.row = drawPercentChange(call.symbol, call.pos)]
  /\ UNCHANGED <<quotes, pc, success, answer, serial, display, trace>>

DrawNext == DrawQuoteCall \/ DrawPercentCall

DrawSpec == DrawInit /\ [][DrawNext]_vars

----------------------------------------------------------------------------
(* Properties.  Helpers first.                                             *)

\* the fetch of row i returned in the state before this one
JustFetched(i) ==
  /\ trace # <<>>
  /\ trace[Len(trace)].ev = "fetchQuote"
  /\ trace[Len(trace)].row = i
  /\ pc[1] \in {"fetchQuote", "report"}

\* the fetch of row i succeeded in the current iteration
FetchedOk(i) ==
  \E k \in 1..Len(trace) :
    trace[k].ev = "fetchQuote" /\ trace[k].row = i /\ trace[k].ok

\* the numeric fields of a quote
Numbers(q) == <<q.current, q.previousClose, q.percentageChange>>

\* text holds "meta":{ with a closing brace somewhere after its start
HasMetaSection(text) ==
  \E a \in 0..Len(text) :
    /\ MatchAt(text, KeyMeta, a)
    /\ \E b \in (a + 1)..Len(text) : text[b] = "}"

\* the meta section of a text that has one: from the first "meta":{ to the
\* first closing brace after it
MetaSectionOf(text) ==
  LET a == CHOOSE x \in 0..Len(text) :
             MatchAt(text, KeyMeta, x)
               /\ \A y \in 0..Len(text) : MatchAt(text, KeyMeta, y) => x <= y
      b == CHOOSE x \in (a + 1)..Len(text) :
             text[x] = "}" /\ \A y \in (a + 1)..(x - 1) : text[y] # "}"
  IN  SubSeq(text, a + 1, b)

\* key occurs in text and a comma occurs after its first occurrence
Obtainable(text, key) ==
  \E a \in 0..Len(text) :
    /\ MatchAt(text, key, a)
    /\ \A y \in 0..(a - 1) : ~MatchAt(text, key, y)
    /\ \E b \in (a + Len(key) + 1)..Len(text) : text[b] = ","

\* answers that fail in transport or have no meta section
SectionMissing == {p \in Payloads : ~HasMetaSection(p)}

TransportOrSectionFailure(net) ==
  \/ ~net.begin
  \/ net.code # HTTP_CODE_OK
  \/ net.payload \in SectionMissing

\* answers with a meta section in which one of the two fields is unobtainable
FieldsMissing ==
  {p \in Payloads :
     /\ HasMetaSection(p)
     /\ \/ ~Obtainable(MetaSectionOf(p), KeyPrice)
        \/ ~Obtainable(MetaSectionOf(p), KeyPrevClose)}

\* percentageChange agrees with current and previousClose
PercentOf(q) ==
  IF q.previousClose[1] = 0
  THEN q.percentageChange[1] = 0
  ELSE RMul(q.percentageChange, q.previousClose)
         = RMul(RSub(q.current, q.previousClose), RInt(100))

\* the rows, then the symbols, of the fetch calls in the trace, in order
FetchCalls == SelectSeq(trace, LAMBDA e : e.ev = "fetchQuote")
FetchRows == [k \in 1..Len(FetchCalls) |-> FetchCalls[k].row]
FetchSymbols == [k \in 1..Len(FetchCalls) |-> FetchCalls[k].sym]

----------------------------------------------------------------------------
\* C1: when rendering starts, a quote has marketOpen = TRUE only if the fetch
\* of that instrument succeeded in the current cycle (a failed fetch leaves
\* marketOpen = FALSE at render time).
C1_OpenOnlyAfterSuccess ==
  pc = <<"fillRect", 0>> =>
    \A i \in Rows : quotes[i].marketOpen => FetchedOk(i)

\* C2: a fetchQuote call that fails in transport, or finds no meta section or
\* no closing brace, leaves current, previousClose and percentageChange as
\* they were before the call.
C2_FailureKeepsNumbers ==
  [][\A i \in Rows :
       (pc = <<"fetchQuote", i>> /\ TransportOrSectionFailure(answer'))
         => Numbers(quotes'[i]) = Numbers(quotes[i])]_vars

\* a failed fetch has just returned on a quote that held numbers
C2_Witness ==
  \E i \in Rows :
    /\ JustFetched(i)
    /\ TransportOrSectionFailure(answer)
    /\ ~success[i]
    /\ quotes[i].current # RZero
    /\ quotes[i].percentageChange # RZero

\* C3: a 200 answer with a meta section in which one of the two fields cannot
\* be extracted is a failure: fetchQuote returns false and the quote
\* (marketOpen included) is left as it was.
C3_AllOrNothing ==
  [][\A i \in Rows :
       (/\ pc = <<"fetchQuote", i>>
        /\ answer'.begin
        /\ answer'.code = HTTP_CODE_OK
        /\ answer'.payload \in FieldsMissing)
         => (~success'[i] /\ quotes'[i] = quotes[i])]_vars

\* C4: in every state every quote has previousClose = 0 => percentageChange = 0
\* and previousClose # 0 => percentageChange = (current - previousClose) /
\* previousClose * 100, and percentageChange changes only in the step of a
\* successful fetch of that quote.
C4_PercentInvariant ==
  /\ [](\A i \in Rows : PercentOf(quotes[i]))
  /\ [][\A i \in Rows :
          quotes'[i].percentageChange # quotes[i].percentageChange
            => (pc = <<"fetchQuote", i>> /\ success'[i])]_vars

\* a fetch has populated a quote whose previousClose is 0 over a quote that had
\* a percentage other than 0
C4_Witness ==
  \E i \in Rows :
    /\ JustFetched(i)
    /\ success[i]
    /\ quotes[i].previousClose = RZero
    /\ quotes[i].current # RZero
    /\ \E j \in Rows : quotes[j].percentageChange # RZero

\* C5: every cycle makes exactly one fetch attempt per instrument, in the order
\* ^SPX, ^NDX, ^TNX, whatever the earlier attempts returned; an attempt that
\* succeeds populates its quote.
C5_OneAttemptEach ==
  /\ pc[1] # "fetchQuote" =>
       (FetchRows = <<0, 1, 2>> /\ FetchSymbols = <<"^SPX", "^NDX", "^TNX">>)
  /\ (pc[1] = "fetchQuote" /\ pc[2] > 0) =>
       FetchRows = [k \in 1..pc[2] |-> k - 1]
  /\ \A i \in Rows :
       (JustFetched(i) /\ success[i]) =>
         /\ quotes[i].marketOpen
         /\ quotes[i].current = Scanned[answer.payload].current
         /\ quotes[i].previousClose = Scanned[answer.payload].previousClose

\* the first fetch of a cycle failed, the two after it succeeded, and the
\* quote of the first was populated by an earlier cycle
C5_Witness ==
  /\ pc = <<"report", 0>>
  /\ ~success[0] /\ success[1] /\ success[2]
  /\ quotes[0].marketOpen /\ quotes[1].marketOpen /\ quotes[2].marketOpen

----------------------------------------------------------------------------
\* C6: with marketOpen = FALSE drawQuote and drawPercentChange both select
\* TFT_DARKGREY, whatever current, previousClose and percentageChange are.
C6_InactiveColour ==
  (call.fn = "draw" /\ call.done # "no" /\ ~call.symbol.marketOpen)
    => call.row.color = TFT_DARKGREY

\* drawQuote has drawn a closed quote whose price is above the previous close
\* and whose change is positive
C6_Witness ==
  /\ call.fn = "draw"
  /\ call.done = "drawQuote"
  /\ ~call.symbol.marketOpen
  /\ call.symbol.current = RInt(5)
  /\ call.symbol.previousClose = RInt(4)
  /\ call.symbol.percentageChange = RInt(25)
  /\ call.row.color = TFT_DARKGREY

\* C7: with marketOpen = TRUE the value colour is up iff current >
\* previousClose, neutral iff they are equal, else down; the percent colour is
\* up iff percentageChange > 0, else neutral iff |percentageChange| < 0.001,
\* else down.
C7_ColourTables ==
  (call.fn = "draw" /\ call.symbol.marketOpen) =>
    LET c == call.symbol.current
        p == call.symbol.previousClose
        g == call.symbol.percentageChange
        small == 1000 * Abs(g[1]) < g[2]
    IN  /\ call.done = "drawQuote" =>
             /\ call.row.color = TFT_GREEN <=> c[1] * p[2] > p[1] * c[2]
             /\ call.row.color = TFT_WHITE <=> c[1] * p[2] = p[1] * c[2]
             /\ call.row.color = TFT_RED <=> c[1] * p[2] < p[1] * c[2]
        /\ call.done = "drawPercentChange" =>
             /\ call.row.color = TFT_GREEN <=> g[1] > 0
             /\ call.row.color = TFT_WHITE <=> (g[1] <= 0 /\ small)
             /\ call.row.color = TFT_RED <=> (g[1] <= 0 /\ ~small)

\* drawPercentChange has drawn an open quote whose change is negative and
\* within the tolerance
C7_Witness ==
  /\ call.fn = "draw"
  /\ call.done = "drawPercentChange"
  /\ call.symbol.marketOpen
  /\ call.symbol.percentageChange = <<-1, 10000>>
  /\ call.row.color = TFT_WHITE

----------------------------------------------------------------------------
\* the number written between the end of the first occurrence of key in text
\* and the next comma
NumberAfterKey(text, key) ==
  LET a == CHOOSE x \in 0..Len(text) :
             MatchAt(text, key, x) /\ \A y \in 0..(x - 1) : ~MatchAt(text, key, y)
      from == a + Len(key) + 1
      b == CHOOSE x \in from..Len(text) :
             text[x] = "," /\ \A y \in from..(x - 1) : text[y] # ","
      between == Trim(SubSeq(text, from, b - 1))
  IN  ToDouble(IF between # <<>> /\ between[1] = ":" THEN Tail(between) ELSE between)

\* C8: whenever the key occurs in the buffer and a comma occurs after its
\* first occurrence, extractValue returns the number written between the key
\* and that comma, wherever the key starts, offset 0 included.
C8_ExtractsAtEveryOffset ==
  (call.fn = "extractValue" /\ call.done /\ Obtainable(call.payload, call.field))
    => call.run.ret = NumberAfterKey(call.payload, call.field)

----------------------------------------------------------------------------
\* the output without the separators of its first w characters
Unseparated(out, w) ==
  SelectSeq(SubSeq(out, 1, w), IsDigit) \o SubSeq(out, w + 1, Len(out))

\* C9: for a value >= 0 and d decimals the output is the rendering of the
\* value rounded to d decimals with the separator between groups of three
\* digits of the whole part, the leftmost group of one to three digits; for
\* d > 0 a point and exactly d digits follow, for d = 0 no point; without the
\* separators it is the unseparated rendering; it fits the caller's buffer.
C9_Grouping ==
  (call.fn = "comma_separator" /\ call.done /\ call.num[1] >= 0) =>
    LET out == call.str
        d == call.decimals
        w == Len(out) - (IF d > 0 THEN d + 1 ELSE 0)
    IN  /\ w >= 1
        /\ IsDigit(out[1])
        /\ \A k \in 1..w :
             IF (w - k) % 4 = 3 THEN out[k] = call.sep ELSE IsDigit(out[k])
        /\ d > 0 => /\ out[w + 1] = "."
                    /\ \A k \in (w + 2)..Len(out) : IsDigit(out[k])
        /\ Unseparated(out, w) = SprintfF(call.num, d, FALSE)
        /\ Len(out) + 1 <= BUF_SIZE
        /\ (call.num = RInt(1234567) /\ d = 0 /\ call.sep = ",")
             => out = <<"1", ",", "2", "3", "4", ",", "5", "6", "7">>
        /\ (call.num = <<7716, 625>> /\ d = 4 /\ call.sep = ".")
             => out = <<"1", "2", ".", "3", "4", "5", "6">>

\* comma_separator has formatted 1234567.0 with no decimals and ','
C9_Witness ==
  /\ call.fn = "comma_separator"
  /\ call.done
  /\ call.num = RInt(1234567)
  /\ call.decimals = 0
  /\ call.sep = ","
  /\ call.str = <<"1", ",", "2", "3", "4", ",", "5", "6", "7">>

----------------------------------------------------------------------------
\* the calls of one iteration of loop(), in order
ExpectedCalls ==
  << <<"fetchQuote", 0>>, <<"fetchQuote", 1>>, <<"fetchQuote", 2>>,
     <<"fillRect", 0>>,
     <<"drawQuote", 0>>, <<"drawQuote", 1>>, <<"drawQuote", 2>>,
     <<"delay", 0>>,
     <<"fillRect", 1>>,
     <<"drawPercentChange", 0>>, <<"drawPercentChange", 1>>,
     <<"drawPercentChange", 2>>,
     <<"delay", 1>> >>

\* row i was drawn by ev in the current iteration
Drawn(ev, i) == \E k \in 1..Len(trace) : trace[k].ev = ev /\ trace[k].row = i

\* C10: in every iteration the three fetches come before any rendering, the
\* three value rows before any percent row, a pause between the two and a
\* pause after; the quotes do not change after getQuotes, so both rows of an
\* instrument are drawn from the same quote; and the iteration repeats: the
\* program is always at the next call of the cycle (or at the report that ends
\* getQuotes), and the second pause is followed by the first fetch of the next
\* iteration.
C10_CycleOrder ==
  /\ [](/\ Len(trace) <= Len(ExpectedCalls)
        /\ \A k \in 1..Len(trace) :
             <<trace[k].ev, trace[k].row>> = ExpectedCalls[k])
  /\ [][pc[1] # "fetchQuote" => quotes' = quotes]_vars
  /\ [](\A i \in Rows :
          /\ (Drawn("drawQuote", i) /\ display[i].kind = "value")
               => display[i].from = quotes[i]
          /\ Drawn("drawPercentChange", i)
               => (display[i].kind = "percent" /\ display[i].from = quotes[i]))
  /\ [](IF pc = <<"report", 0>>
        THEN Len(trace) = 3
        ELSE pc = ExpectedCalls[(Len(trace) % Len(ExpectedCalls)) + 1])
  /\ [][pc = <<"delay", 1>> => pc' = <<"fetchQuote", 0>>]_vars

\* an iteration has completed with a populated quote on the screen
C10_Witness ==
  /\ pc = <<"fetchQuote", 0>>
  /\ Len(trace) = Len(ExpectedCalls)
  /\ display[0].kind = "percent"
  /\ display[0].from.marketOpen
  /\ display[0].from.percentageChange = RInt(25)

----------------------------------------------------------------------------
\* C11: extractValue returns 0.0 whenever the key does not occur in the
\* buffer or no comma occurs after the key; the substring it takes lies within
\* the buffer (0 <= start <= end <= length); the buffer is not modified.
C11_SoftFailure ==
  /\ []((call.fn = "extractValue" /\ call.done) =>
          /\ ~Obtainable(call.payload, call.field)
               => (call.run.ret = RZero /\ ~call.run.took)
          /\ call.run.took =>
               /\ 0 <= call.run.start
               /\ call.run.start <= call.run.end
               /\ call.run.end <= Len(call.payload))
  /\ [][call.fn = "extractValue" =>
          (call'.payload = call.payload /\ call'.field = call.field)]_vars

\* extractValue has returned 0.0 for a field that is the last one before the
\* closing brace: the key is there, a number follows it, no comma does
C11_Witness ==
  /\ call.fn = "extractValue"
  /\ call.done
  /\ call.payload = <<"{">> \o KeyPrice \o <<"1", "2", "3", ".", "4", "5", "}">>
  /\ call.field = KeyPrice
  /\ call.run.ret = RZero

----------------------------------------------------------------------------
\* C12: for a negative value comma_separator does not count the sign as a
\* digit: the output is the sign followed by the grouping of the absolute
\* value, so no separator directly follows the sign.
C12_SignNotCounted ==
  (call.fn = "comma_separator" /\ call.done /\ call.num[1] < 0) =>
    /\ call.str = <<"-">> \o comma_separator(RAbs(call.num), call.sep, call.decimals)
    /\ ~(Len(call.str) >= 2 /\ call.str[1] = "-" /\ call.str[2] = call.sep)

----------------------------------------------------------------------------
\* C13: until the first successful fetchQuote of an instrument its quote is
\* the zero-initialised record (it starts as that record and only a successful
\* fetch of that instrument changes it), every rendering of such a quote uses
\* the inactive colour, and a fetchQuote call for one instrument never
\* modifies the quote of another instrument.
C13_ZeroUntilFirstSuccess ==
  /\ \A i \in Rows :
       /\ quotes[i] = ZeroQuote
       /\ Numbers(quotes[i]) = <<RZero, RZero, RZero>>
       /\ ~quotes[i].marketOpen
  /\ [][\A i \in Rows :
          (quotes[i] = ZeroQuote /\ ~(pc = <<"fetchQuote", i>> /\ success'[i]))
            => quotes'[i] = ZeroQuote]_vars
  /\ [][\A i \in Rows :
          (quotes[i] = ZeroQuote /\ pc \in {<<"drawQuote", i>>, <<"drawPercentChange", i>>})
            => (display'[i].kind # "blank" /\ display'[i].color = TFT_DARKGREY)]_vars
  /\ [][\A i \in Rows :
          pc = <<"fetchQuote", i>>
            => \A j \in Rows \ {i} : quotes'[j] = quotes[j]]_vars

\* a later cycle: the fetch of row 0 has failed again and its quote is still
\* the zero record, drawn in the inactive colour, while row 1 was fetched
\* successfully and its percentage of the cycle before is still on screen
C13_Witness ==
  /\ pc = <<"fetchQuote", 1>>
  /\ JustFetched(0)
  /\ ~success[0]
  /\ quotes[0] = ZeroQuote
  /\ display[0].kind = "percent"
  /\ display[0].from = ZeroQuote
  /\ display[0].color = TFT_DARKGREY
  /\ display[1].kind = "percent"
  /\ quotes[1].marketOpen
  /\ quotes[1].current # RZero
  /\ quotes[2] = ZeroQuote

====
